---- MODULE Spec2Model ----
\* A model of pbf-bench: the benchmark driver's result store (run_benchmark.py)
\* and the model invocation layer (model_runner.py, judge.py).
EXTENDS Integers, Sequences, FiniteSets, TLC

\* ------------------------------------------------------------------------
\* Bounds
\* ------------------------------------------------------------------------
\* Number of invocations of the benchmark driver that are explored.
MaxRuns == 2

\* ------------------------------------------------------------------------
\* Configuration and inputs of the driver
\* ------------------------------------------------------------------------
None == "None"

\* config['models']
ConfigModels == {"A", "B", "C"}

\* config['benchmark_models']
BenchmarkModels == <<"A", "B">>

\* config['models'][m]['model']
ModelVersion(m) == IF m \in ConfigModels THEN "v-" \o m ELSE "unknown"

\* --models: the model lists a run is started with
ModelLists == {<<"A", "B">>, <<"B", "C">>, <<"A">>}

\* comics with a ground-truth label, in metadata order
ComicIds == <<"c1", "c2">>

\* --comics: the comic selections a run is started with
Selections == {<<"c1", "c2">>, <<"c2", "c2">>}

\* --save-mode
SaveModes == {"auto", "merge", "overwrite"}

\* What the providers and the judge answer in a run:
\*   ok         every model answers and the judge scores the answer
\*   modelerr   every model's last attempt errors, the judge fails too
\*   noimage    the image of the first selected comic is missing; the other
\*              comics are answered and scored
\*   raises     the metadata of the first selected comic has no local_path:
\*              run_single_comic raises KeyError for it; the other comics
\*              are answered and scored
RunKinds == {"ok", "modelerr", "noimage", "raises"}

\* Python's order on the strings used as keys (sorted())
KeyOrder == <<"A", "B", "C", "c1", "c2">>

RankOf(k) == CHOOSE i \in 1..Len(KeyOrder) : KeyOrder[i] = k

RECURSIVE SortedKeys(_)
\* sorted(S) for a set of keys
SortedKeys(S) ==
    IF S = {} THEN <<>>
    ELSE LET k == CHOOSE x \in S : \A y \in S : RankOf(x) <= RankOf(y)
         IN <<k>> \o SortedKeys(S \ {k})

Range(s) == {s[i] : i \in DOMAIN s}

EmptyDict == [k \in {} |-> None]

\* dict.update: the keys of e win
DictUpdate(d, e) ==
    [k \in (DOMAIN d) \cup (DOMAIN e) |-> IF k \in DOMAIN e THEN e[k] ELSE d[k]]

\* d[k] = v on a dict
DictSet(d, k, v) == [x \in (DOMAIN d) \cup {k} |-> IF x = k THEN v ELSE d[x]]

\* ------------------------------------------------------------------------
\* run_single_comic / run_benchmark: the results of one run
\* ------------------------------------------------------------------------
\* The JudgeScore-like record stored per model (run_benchmark.py 134-142)
ScoreRecord(o, a, c, i, cl, why, ts) ==
    [overall_score |-> o, accuracy_score |-> a, completeness_score |-> c,
     insight_score |-> i, clarity_score |-> cl, reasoning |-> why, timestamp |-> ts]

\* _create_error_score: the zero-scored sentinel
ErrorScore(ts) == ScoreRecord(0, 0, 0, 0, 0, "Error: judge failed", ts)

\* The judge's score of a model's explanation in a run of the given kind
JudgeOutcome(kind, ts) ==
    IF kind = "modelerr" THEN ErrorScore(ts)
    ELSE ScoreRecord(7, 8, 6, 7, 5, "ok", ts)

\* The text kept for a model: the response text, or the bracketed error
ExplanationText(kind, m) ==
    IF kind = "modelerr" THEN "[Error: provider failed]"
    ELSE "text-" \o m

\* os.path.exists(image_path) for a comic of the run
ImageExists(sel, kind, comic_id) == ~(kind = "noimage" /\ comic_id = sel[1])

\* mutant: an explanation that is an error text is not judged
run_single_comic_SkipsFailed(comic_id, models, sel, kind, ts) ==
    IF ~ImageExists(sel, kind, comic_id)
    THEN [comic_id |-> comic_id, error |-> "Image not found",
          explanations |-> EmptyDict, scores |-> EmptyDict]
    ELSE [comic_id |-> comic_id, comic_title |-> "title-" \o comic_id,
          explanations |-> [m \in Range(models) |-> ExplanationText(kind, m)],
          scores |-> [m \in {x \in Range(models) : kind # "modelerr"} |->
                         JudgeOutcome(kind, ts)],
          ground_truth |-> "gt-" \o comic_id, timestamp |-> ts]

run_single_comic(comic_id, models, sel, kind, ts) ==
    IF ~ImageExists(sel, kind, comic_id)
    THEN [comic_id |-> comic_id, error |-> "Image not found",
          explanations |-> EmptyDict, scores |-> EmptyDict]
    ELSE [comic_id |-> comic_id, comic_title |-> "title-" \o comic_id,
          explanations |-> [m \in Range(models) |-> ExplanationText(kind, m)],
          scores |-> [m \in Range(models) |-> JudgeOutcome(kind, ts)],
          ground_truth |-> "gt-" \o comic_id, timestamp |-> ts]

\* comics_to_test for an explicit comic-id list: ids known to the metadata
\* and to the ground truth, in the order given
ComicsToTest(sel) == SelectSeq(sel, LAMBDA c : c \in Range(ComicIds))

\* comic['local_path'] raises KeyError
ProcessingRaises(sel, kind, comic_id) == kind = "raises" /\ comic_id = sel[1]

\* one pass of run_benchmark's loop body: the result of run_single_comic, or
\* the error entry of the except branch
ComicResult(comic_id, models, sel, kind, ts) ==
    IF ProcessingRaises(sel, kind, comic_id)
    THEN [comic_id |-> comic_id, error |-> "'local_path'",
          explanations |-> EmptyDict, scores |-> EmptyDict]
    ELSE run_single_comic(comic_id, models, sel, kind, ts)

RECURSIVE FirstFailure(_, _, _, _)
\* the position of the first failing comic at or after i, Len + 1 if none
FirstFailure(todo, sel, kind, i) ==
    IF i > Len(todo) THEN i
    ELSE IF ProcessingRaises(sel, kind, todo[i]) \/ ~ImageExists(sel, kind, todo[i])
         THEN i
         ELSE FirstFailure(todo, sel, kind, i + 1)

\* mutant: the loop ends at the first failing comic
RunResultsStopAtFailure(models, sel, kind, ts) ==
    LET todo == ComicsToTest(sel)
        stop == FirstFailure(todo, sel, kind, 1)
    IN [i \in 1..(IF stop > Len(todo) THEN Len(todo) ELSE stop) |->
          ComicResult(todo[i], models, sel, kind, ts)]

\* the results list built by run_benchmark's loop
RunResults(models, sel, kind, ts) ==
    LET todo == ComicsToTest(sel)
    IN [i \in 1..Len(todo) |-> ComicResult(todo[i], models, sel, kind, ts)]

\* ------------------------------------------------------------------------
\* _calculate_summary_stats
\* ------------------------------------------------------------------------
RECURSIVE SumSeq(_)
SumSeq(s) == IF s = <<>> THEN 0 ELSE Head(s) + SumSeq(Tail(s))

RECURSIVE Insert(_, _)
Insert(x, s) ==
    IF s = <<>> THEN <<x>>
    ELSE IF x <= Head(s) THEN <<x>> \o s ELSE <<Head(s)>> \o Insert(x, Tail(s))

RECURSIVE SortedSeq(_)
\* sorted(scores)
SortedSeq(s) == IF s = <<>> THEN <<>> ELSE Insert(Head(s), SortedSeq(Tail(s)))

RECURSIVE Gcd(_, _)
Gcd(a, b) == IF b = 0 THEN a ELSE Gcd(b, a % b)

\* sum(scores) / len(scores), kept exact as a reduced fraction <<num, den>>
Mean(s) ==
    LET n == SumSeq(s)
        d == Len(s)
        g == Gcd(n, d)
    IN <<n \div g, d \div g>>

\* sorted(scores)[len(scores) // 2]  (zero-based index)
Median(s) == SortedSeq(s)[(Len(s) \div 2) + 1]

MinOf(s) == SortedSeq(s)[1]

MaxOf(s) == SortedSeq(s)[Len(s)]

\* the values of one score field of a model, over the results in order
FieldScores(results, model, field) ==
    LET has == SelectSeq(results, LAMBDA r : model \in DOMAIN r.scores)
    IN [i \in 1..Len(has) |-> has[i].scores[model][field]]

ModelStats(results, model) ==
    LET scores == FieldScores(results, model, "overall_score")
        acc == FieldScores(results, model, "accuracy_score")
        com == FieldScores(results, model, "completeness_score")
        ins == FieldScores(results, model, "insight_score")
        cla == FieldScores(results, model, "clarity_score")
    IN IF scores # <<>>
       THEN [count |-> Len(scores),
             overall |-> [mean |-> Mean(scores), median |-> Median(scores),
                          min |-> MinOf(scores), max |-> MaxOf(scores)],
             accuracy |-> [mean |-> Mean(acc), median |-> Median(acc)],
             completeness |-> [mean |-> Mean(com), median |-> Median(com)],
             insight |-> [mean |-> Mean(ins), median |-> Median(ins)],
             clarity |-> [mean |-> Mean(cla), median |-> Median(cla)]]
       ELSE [count |-> 0, error |-> "No successful evaluations"]

\* models is a list; the summary is a dict keyed by its elements
calculate_summary_stats(results, models) ==
    [m \in Range(models) |-> ModelStats(results, m)]

\* the benchmark_results document built by run_benchmark
BenchmarkResults(models, sel, kind, ts) ==
    LET results == RunResults(models, sel, kind, ts)
    IN [metadata |-> [timestamp |-> ts, models |-> models,
                      total_comics |-> Len(results)],
        summary |-> calculate_summary_stats(results, models),
        detailed_results |-> results]

\* ------------------------------------------------------------------------
\* The tabular projection (benchmark_results.csv)
\* ------------------------------------------------------------------------
\* csv.DictWriter writes str(value); csv.DictReader reads the cell back as text
Str(v) == ToString(v)

ComicField(comic_id) == "comic_" \o comic_id

BaseFields == <<"model_name", "model_version", "timestamp">>

SummaryFields ==
    <<"average_score", "median_score", "min_score", "max_score", "total_comics">>

RECURSIVE Dedup(_)
\* the elements of a sequence in order of first occurrence (dict key order)
Dedup(s) ==
    IF s = <<>> THEN <<>>
    ELSE LET init == Dedup(SubSeq(s, 1, Len(s) - 1))
         IN IF s[Len(s)] \in Range(init) THEN init ELSE Append(init, s[Len(s)])

ComicIdsOf(results) == [i \in 1..Len(results) |-> results[i].comic_id]

ComicFieldsOf(ids) == [i \in 1..Len(ids) |-> ComicField(ids[i])]

\* the cell of a comic the model has no score for: 'ERROR' in
\* _save_csv_summary, '' unless the row already has the field in _save_merged_csv
MissingCell(row, field, merged) ==
    IF merged
    THEN IF field \in DOMAIN row THEN row ELSE DictSet(row, field, "")
    ELSE DictSet(row, field, "ERROR")

RECURSIVE ComicCells(_, _, _, _)
\* the per-comic loop of a row
ComicCells(row, results, model, merged) ==
    IF results = <<>> THEN row
    ELSE LET r == Head(results)
             field == ComicField(r.comic_id)
             next == IF model \in DOMAIN r.scores
                     THEN DictSet(row, field, Str(r.scores[model].overall_score))
                     ELSE MissingCell(row, field, merged)
         IN ComicCells(next, Tail(results), model, merged)

StatCells(row, stats) ==
    DictUpdate(row, [f \in Range(SummaryFields) |->
        CASE f = "average_score" -> Str(stats.overall.mean)
          [] f = "median_score" -> Str(stats.overall.median)
          [] f = "min_score" -> Str(stats.overall.min)
          [] f = "max_score" -> Str(stats.overall.max)
          [] OTHER -> Str(stats.count)])

ErrorStatCells(row) ==
    DictUpdate(row, [f \in Range(SummaryFields) |->
        IF f = "total_comics" THEN Str(0) ELSE "ERROR"])

\* one row of _save_csv_summary
SummaryRow(doc, model) ==
    LET base == [f \in Range(BaseFields) |->
                   CASE f = "model_name" -> model
                     [] f = "model_version" -> ModelVersion(model)
                     [] OTHER -> Str(doc.metadata.timestamp)]
        cells == ComicCells(base, doc.detailed_results, model, FALSE)
    IN IF model \in DOMAIN doc.summary
       THEN IF "overall" \in DOMAIN doc.summary[model]
            THEN StatCells(cells, doc.summary[model])
            ELSE ErrorStatCells(cells)
       ELSE cells

\* DictWriter.writerows: a row with a key outside fieldnames raises ValueError
\* after the rows before it were written; a missing key is written as ''
RowFits(fieldnames, row) == DOMAIN row \subseteq Range(fieldnames)

WrittenRows(fieldnames, rows) ==
    LET bad == {i \in 1..Len(rows) : ~RowFits(fieldnames, rows[i])}
        n == IF bad = {} THEN Len(rows)
             ELSE (CHOOSE i \in bad : \A j \in bad : i <= j) - 1
    IN [i \in 1..n |->
          [f \in Range(fieldnames) |->
              IF f \in DOMAIN rows[i] THEN rows[i][f] ELSE ""]]

WriteRaises(fieldnames, rows) == \E i \in 1..Len(rows) : ~RowFits(fieldnames, rows[i])

\* the file left by open(results_csv, 'w'), writeheader(), writerows(rows)
CsvFile(fieldnames, rows) ==
    [exists |-> TRUE, fieldnames |-> fieldnames,
     rows |-> WrittenRows(fieldnames, rows)]

NoCsv == [exists |-> FALSE, fieldnames |-> <<>>, rows |-> <<>>]

\* csv_data of _save_csv_summary
SummaryCsvRows(doc) ==
    [i \in 1..Len(doc.metadata.models) |-> SummaryRow(doc, doc.metadata.models[i])]

\* csv_data[0].keys(), in insertion order
SummaryFieldnames(doc) ==
    LET models == doc.metadata.models
    IN BaseFields
       \o ComicFieldsOf(Dedup(ComicIdsOf(doc.detailed_results)))
       \o (IF models # <<>> /\ models[1] \in DOMAIN doc.summary
           THEN SummaryFields ELSE <<>>)

\* _save_csv_summary: the file after the call (unchanged when there is no row)
save_csv_summary(doc, oldCsv) ==
    IF SummaryCsvRows(doc) # <<>>
    THEN CsvFile(SummaryFieldnames(doc), SummaryCsvRows(doc))
    ELSE oldCsv

\* ------------------------------------------------------------------------
\* _merge_and_save_results / _save_merged_csv
\* ------------------------------------------------------------------------
\* the detailed-results document on disk (benchmark_details.json)
JsonFile(doc) ==
    [exists |-> TRUE, metadata |-> doc.metadata, summary |-> doc.summary,
     detailed_results |-> doc.detailed_results]

NoJson ==
    [exists |-> FALSE,
     metadata |-> [timestamp |-> 0, models |-> <<>>, total_comics |-> 0],
     summary |-> EmptyDict, detailed_results |-> <<>>]

\* mutant: the existing entry's values win on a shared model
MergeEntryOldWins(entry, result) ==
    [entry EXCEPT !.explanations = DictUpdate(result.explanations, @),
                  !.scores = DictUpdate(result.scores, @)]

\* explanations.update(...) and scores.update(...) on an existing entry
MergeEntry(entry, result) ==
    [entry EXCEPT !.explanations = DictUpdate(@, result.explanations),
                  !.scores = DictUpdate(@, result.scores)]

\* mutant: the new result replaces the existing entry
UpsertResultReplaces(map, result) == DictSet(map, result.comic_id, result)

\* one iteration of either loop over results
UpsertResult(map, result) ==
    IF result.comic_id \in DOMAIN map
    THEN DictSet(map, result.comic_id, MergeEntry(map[result.comic_id], result))
    ELSE DictSet(map, result.comic_id, result)

RECURSIVE FoldResults(_, _)
FoldResults(map, results) ==
    IF results = <<>> THEN map
    ELSE FoldResults(UpsertResult(map, Head(results)), Tail(results))

\* old_results_map after both loops
MergedMap(old_results, new_results) ==
    FoldResults(FoldResults(EmptyDict, old_results), new_results)

\* mutant: the new results are appended, not upserted by comic_id
MergedDetailedAppends(old_results, new_results) == old_results \o new_results

\* sorted(old_results_map.values(), key=comic_id)
MergedDetailed(old_results, new_results) ==
    LET map == MergedMap(old_results, new_results)
        ids == SortedKeys(DOMAIN map)
    IN [i \in 1..Len(ids) |-> map[ids[i]]]

\* all_models: every key of every explanations map
AllModels(results) == UNION {DOMAIN results[i].explanations : i \in 1..Len(results)}

\* mutant: the summary is computed over the new run's results only
MergedDataSummaryOfRun(oldJson, new) ==
    LET detailed == MergedDetailed(oldJson.detailed_results, new.detailed_results)
        all_models == SortedKeys(AllModels(detailed))
    IN [metadata |-> [new.metadata EXCEPT !.models = all_models],
        summary |-> calculate_summary_stats(new.detailed_results, all_models),
        detailed_results |-> detailed]

\* mutant: the model set and the summary are those of the new run
MergedDataRunModels(oldJson, new) ==
    LET detailed == MergedDetailed(oldJson.detailed_results, new.detailed_results)
    IN [metadata |-> new.metadata,
        summary |-> calculate_summary_stats(detailed, new.metadata.models),
        detailed_results |-> detailed]

\* merged_data as dumped to details_json
MergedData(oldJson, new) ==
    LET detailed == MergedDetailed(oldJson.detailed_results, new.detailed_results)
        all_models == SortedKeys(AllModels(detailed))
    IN [metadata |-> [new.metadata EXCEPT !.models = all_models],
        summary |-> calculate_summary_stats(detailed, all_models),
        detailed_results |-> detailed]

\* existing_rows: the rows of the CSV on disk by model_name, the last one winning
ExistingRows(oldCsv) ==
    [m \in {oldCsv.rows[i]["model_name"] : i \in 1..Len(oldCsv.rows)} |->
        oldCsv.rows[CHOOSE i \in 1..Len(oldCsv.rows) :
                       /\ oldCsv.rows[i]["model_name"] = m
                       /\ \A j \in 1..Len(oldCsv.rows) :
                            oldCsv.rows[j]["model_name"] = m => j <= i]]

MergedFieldnames(merged) ==
    BaseFields
    \o ComicFieldsOf(SortedKeys(Range(ComicIdsOf(merged.detailed_results))))
    \o SummaryFields

\* one row of _save_merged_csv
MergedRow(merged, new_models, existing_rows, model) ==
    LET start == IF model \in DOMAIN existing_rows THEN existing_rows[model]
                 ELSE EmptyDict
        named == DictSet(DictSet(start, "model_name", model),
                         "model_version", ModelVersion(model))
        stamped == IF model \in new_models \/ "timestamp" \notin DOMAIN named
                   THEN DictSet(named, "timestamp", Str(merged.metadata.timestamp))
                   ELSE named
        cells == ComicCells(stamped, merged.detailed_results, model, TRUE)
        stats == IF model \in DOMAIN merged.summary
                    /\ "overall" \in DOMAIN merged.summary[model]
                 THEN StatCells(cells, merged.summary[model])
                 ELSE cells
        fields == Range(MergedFieldnames(merged))
    IN [f \in (DOMAIN stats) \cup fields |->
          IF f \in DOMAIN stats THEN stats[f] ELSE ""]

MergedCsvRows(merged, new_models, oldCsv) ==
    LET existing_rows == IF oldCsv.exists THEN ExistingRows(oldCsv) ELSE EmptyDict
        all_models == merged.metadata.models
    IN [i \in 1..Len(all_models) |->
          MergedRow(merged, new_models, existing_rows, all_models[i])]

\* _save_merged_csv: the file after the call
save_merged_csv(merged, new_models, oldCsv) ==
    LET csv_data == MergedCsvRows(merged, new_models, oldCsv)
    IN IF csv_data # <<>> THEN CsvFile(MergedFieldnames(merged), csv_data)
       ELSE oldCsv

\* ------------------------------------------------------------------------
\* _save_results
\* ------------------------------------------------------------------------
\* mutant: auto merges for any subset, the full benchmark set included
ShouldMergeSubsetEq(mode, current_models) ==
    \/ mode = "merge"
    \/ mode = "auto" /\ current_models \subseteq Range(BenchmarkModels)

\* should_merge
ShouldMerge(mode, current_models) ==
    \/ mode = "merge"
    \/ /\ mode = "auto"
       /\ current_models \subseteq Range(BenchmarkModels)
       /\ current_models # Range(BenchmarkModels)

\* mutant: only an explicit merge mode merges
SavePathAutoOverwrites(mode, doc, oldJson) ==
    IF mode = "merge" /\ oldJson.exists THEN "merge" ELSE "overwrite"

\* the branch _save_results takes
SavePath(mode, doc, oldJson) ==
    IF ShouldMerge(mode, Range(doc.metadata.models)) /\ oldJson.exists
    THEN "merge" ELSE "overwrite"

\* the two files after _save_results, and whether writing the CSV raised
save_results(doc, mode, oldJson, oldCsv) ==
    IF SavePath(mode, doc, oldJson) = "merge"
    THEN LET merged == MergedData(oldJson, doc)
             new_models == Range(doc.metadata.models)
             rows == MergedCsvRows(merged, new_models, oldCsv)
         IN [json |-> JsonFile(merged),
             csv |-> save_merged_csv(merged, new_models, oldCsv),
             raised |-> WriteRaises(MergedFieldnames(merged), rows),
             path |-> "merge"]
    ELSE [json |-> JsonFile(doc),
          csv |-> save_csv_summary(doc, oldCsv),
          raised |-> WriteRaises(SummaryFieldnames(doc), SummaryCsvRows(doc)),
          path |-> "overwrite"]

\* ------------------------------------------------------------------------
\* The files of the driver process
\* ------------------------------------------------------------------------
VARIABLES
    jsonFile,     \* benchmark_details.json
    csvFile,      \* benchmark_results.csv
    runs,         \* invocations of the driver so far; the clock of timestamps
    returned,     \* what main() returned in the last invocation
    exitStatus,   \* the exit status of the last invocation's process
    lastRun       \* the last invocation: its arguments, the branch taken, the
                  \* store it found, and whether it merged the same run as
                  \* the merge before it

storeVars == <<jsonFile, csvFile, runs, returned, exitStatus, lastRun>>

\* ------------------------------------------------------------------------
\* The model invocation layer: ModelRunner, RateLimiter, the judge's runner
\* ------------------------------------------------------------------------
\* Time is counted in ticks of 60 / (rate * TicksPerToken) seconds and tokens
\* in units of 1 / TicksPerToken of a token, so that the bucket refills one
\* unit per tick and a minute is rate * TicksPerToken ticks.
TicksPerToken == 2

\* the largest rate limit (requests per minute) a configuration sets
MaxRate == 2

\* the largest retry.max_attempts a configuration sets
MaxAttempts == 2

\* the longest a provider call takes, in ticks
MaxLatency == 1

\* retry.initial_delay (in ticks) and retry.backoff_factor
InitialDelay == 1

BackoffFactor == 2

\* the longest model_ids list passed to run_models
RequestedModels == <<"A", "B", "C">>

\* the invocations: run_models alone over the requested models, or
\* run_single_comic over one model, whose explanation is judged afterwards
Invocations ==
    {[model_ids |-> RequestedModels, judging |-> FALSE],
     [model_ids |-> <<"C">>, judging |-> TRUE]}

\* config['judge_model']
JudgeModel == "claude-judge"

Providers == {"anthropic", "openai"}

\* the two ModelRunner instances of the process: BenchmarkRunner.runner and
\* ComicExplanationJudge.runner
Owners == {"bench", "judge"}

\* a RateLimiter instance: rate_limiters[provider] of one ModelRunner
Limiters == Owners \X Providers

NumModelCalls == Len(RequestedModels)

\* a slot per call of run_model: the i-th requested model's, then the
\* judgement of the i-th explanation
ModelSlots == 1..NumModelCalls

Slots == 1..(2 * NumModelCalls)

VARIABLES
    cfg,          \* the loaded configuration and the invocation's arguments
    now,          \* time.time(), in ticks
    tokens,       \* RateLimiter.tokens of each instance, in token units
    last_update,  \* RateLimiter.last_update of each instance
    lockHolder,   \* the call holding each instance's asyncio.Lock, 0 if free
    waiters,      \* the calls queued on each instance's lock, in arrival order
    pc,           \* where each call of run_model stands
    wake,         \* when a sleeping call's timer is due, 0 if it has none
    attempt,      \* generate calls made so far by each call
    failures,     \* how many of them returned an error
    delay,        \* the next backoff delay of each call
    resp,         \* the last response of each call
    ready,        \* the event loop's queue of callbacks ready to run
    busy,         \* the call inside a provider request (the loop is in it), or 0
    asked,        \* when each call reached rate_limiter.acquire()
    acquired,     \* the provider calls so far: who, at which limiter, when
    completed,    \* the calls of run_model that have returned, in that order
    runModelsResult, \* whether run_models has returned, and the map it returned
    outcome,      \* how the last provider request of each call ended
    judgeText,    \* the text the judge model answered to each judge call
    score,        \* the JudgeScore judge_explanation returned for each judge call
    stages,       \* the stages each judge call went through, and how each ended
    served        \* the model entry whose configuration served each call's
                  \* last request

runVars ==
    <<cfg, now, tokens, last_update, lockHolder, waiters, pc, wake, attempt,
      failures, delay, resp, ready, busy, asked, acquired, completed,
      runModelsResult, outcome, judgeText, score, stages, served>>

judgeVars == <<judgeText, score, stages>>

gatherVars == <<completed, runModelsResult>>

\* run_models has not returned
NotReturned == [returned |-> FALSE, map |-> EmptyDict]

\* the calls of run_model of the invocation: one per requested model, then
\* one per judged explanation
ModelCalls == 1..Len(cfg.model_ids)

JudgeCalls == IF cfg.judging THEN {NumModelCalls + i : i \in ModelCalls} ELSE {}

Calls == ModelCalls \cup JudgeCalls

NoBucket == <<"none", "none">>

ModelOf(c) == IF c \in ModelSlots THEN cfg.model_ids[c] ELSE JudgeModel

\* config['models'][model_id]['provider']
ProviderOf(c) == cfg.provider[ModelOf(c)]

OwnerOf(c) == IF c \in ModelSlots THEN "bench" ELSE "judge"

\* self.rate_limiters.get(provider_name) of the runner the call goes through
LimiterOf(c) == <<OwnerOf(c), ProviderOf(c)>>

\* RateLimiter.__init__: tokens = rate
Capacity == cfg.rate * TicksPerToken

OneToken == TicksPerToken

Min(a, b) == IF a <= b THEN a ELSE b

\* min(rate, tokens + elapsed * (rate / 60))
Refill(tok, elapsed) == Min(Capacity, tok + elapsed)

\* mutant: the caller is not suspended
SleepTimeZero(tok) == 0

\* (1 - tokens) * (60 / rate)
SleepTime(tok) == OneToken - tok

\* the judge model id has no entry in config['models']
NotConfigured == "not configured"

ScoreFields ==
    {"accuracy_score", "completeness_score", "insight_score", "clarity_score",
     "overall_score"}

\* required_fields of _parse_judge_response
RequiredFields == ScoreFields \cup {"reasoning"}

\* What the judge model answers, by what the parser can see in it:
\*   syntax   "json"   an object that json.loads accepts
\*            "broken" an object that json.loads rejects (a raw newline in
\*                     the reasoning, a trailing comma)
\*            "none"   no '{' ... '}' in the text
\*   keys     the fields written in it as "field": value
\*   numeric  the values of the score fields are numbers
\*   fence    the object is inside a ```json block
JudgeOutputs ==
    {[syntax |-> "json", keys |-> RequiredFields, numeric |-> TRUE, fence |-> TRUE],
     [syntax |-> "json", keys |-> RequiredFields, numeric |-> TRUE, fence |-> FALSE],
     [syntax |-> "json", keys |-> RequiredFields, numeric |-> FALSE, fence |-> FALSE],
     [syntax |-> "json", keys |-> RequiredFields \ {"clarity_score"}, numeric |-> TRUE,
      fence |-> TRUE],
     [syntax |-> "broken", keys |-> RequiredFields, numeric |-> TRUE, fence |-> TRUE],
     [syntax |-> "broken", keys |-> RequiredFields \ {"clarity_score"}, numeric |-> TRUE,
      fence |-> FALSE],
     [syntax |-> "none", keys |-> {}, numeric |-> FALSE, fence |-> FALSE]}

NoText == [syntax |-> "unread", keys |-> {}, numeric |-> FALSE, fence |-> FALSE]

NoScore == [pending |-> TRUE]

\* the value the judge wrote for a field
WrittenValue(field) ==
    CASE field = "overall_score" -> 7
      [] field = "accuracy_score" -> 8
      [] field = "completeness_score" -> 6
      [] field = "insight_score" -> 7
      [] field = "clarity_score" -> 5
      [] OTHER -> 0

\* json.loads(json_str) with the scores made floats
LoadedJson(text) ==
    [f \in text.keys |-> IF f = "reasoning" THEN "judged" ELSE WrittenValue(f)]

\* required_fields is assigned after json.loads: in the handler of
\* JSONDecodeError the name has no value
RequiredFieldsBound == FALSE

\* the regex stage of _parse_judge_response: the score patterns match
\* "field": number, the reasoning is always set; reading required_fields
\* raises and the stage's except branch gives None
RegexStage(text) ==
    LET matched == IF text.numeric THEN text.keys \cap ScoreFields ELSE {}
        scores == [f \in matched \cup {"reasoning"} |->
                     IF f = "reasoning" THEN "judged" ELSE WrittenValue(f)]
    IN IF ~RequiredFieldsBound THEN EmptyDict
       ELSE IF RequiredFields \subseteq DOMAIN scores THEN scores
       ELSE EmptyDict

\* _parse_judge_response; None is the empty dict (both fail `if not`)
parse_judge_response(text) ==
    IF text.syntax = "none" THEN EmptyDict
    ELSE IF text.syntax = "json"
         THEN IF ~(RequiredFields \subseteq text.keys) THEN EmptyDict
              ELSE IF ~text.numeric THEN EmptyDict
              ELSE LoadedJson(text)
         ELSE RegexStage(text)

\* a stage of the judge and whether it gave the score
Stage(name, ok) == [stage |-> name, ok |-> ok]

\* mutant: the regex extraction is tried before json.loads
ParseStagesRegexFirst(text) ==
    <<Stage("regex", RegexStage(text) # EmptyDict)>>
    \o (IF RegexStage(text) # EmptyDict THEN <<>>
        ELSE <<Stage("fenced", text.fence /\ parse_judge_response(text) # EmptyDict)>>)

\* the stages _parse_judge_response goes through on a text: the search for
\* a fenced block, the braces when there is no fence, the regex extraction
\* when json.loads rejects the string found
ParseStages(text) ==
    LET parsed == text.syntax = "json" /\ parse_judge_response(text) # EmptyDict
        found == <<Stage("fenced", text.fence /\ parsed)>>
                 \o (IF text.fence THEN <<>>
                     ELSE <<Stage("brace", text.syntax # "none" /\ parsed)>>)
    IN IF text.syntax = "broken"
       THEN Append(found, Stage("regex", RegexStage(text) # EmptyDict))
       ELSE found

\* the stages of _judge_with_text_parsing after run_model has returned: the
\* parse of the text when the response has no error, and the zero score
\* when no stage gave one
TextParsingStages(response, text) ==
    IF response.error THEN <<Stage("zero_score", TRUE)>>
    ELSE LET tried == ParseStages(text)
         IN IF tried[Len(tried)].ok THEN tried
            ELSE Append(tried, Stage("zero_score", TRUE))

\* judge_output.get(field, 0.0)
GetOr(d, k, default) == IF k \in DOMAIN d THEN d[k] ELSE default

\* _judge_with_text_parsing after run_model has returned
TextParsingScore(response, text, ts) ==
    IF response.error THEN ErrorScore(ts)
    ELSE LET judge_output == parse_judge_response(text)
         IN IF judge_output = EmptyDict THEN ErrorScore(ts)
            ELSE ScoreRecord(GetOr(judge_output, "overall_score", 0),
                             GetOr(judge_output, "accuracy_score", 0),
                             GetOr(judge_output, "completeness_score", 0),
                             GetOr(judge_output, "insight_score", 0),
                             GetOr(judge_output, "clarity_score", 0),
                             GetOr(judge_output, "reasoning", ""), ts)

\* the JudgeScore built from the tool input of the structured answer
StructuredScore(ts) ==
    ScoreRecord(WrittenValue("overall_score"), WrittenValue("accuracy_score"),
                WrittenValue("completeness_score"), WrittenValue("insight_score"),
                WrittenValue("clarity_score"), "judged", ts)

\* judge_explanation takes the structured path for a claude model on anthropic
Structured == cfg.provider[JudgeModel] = "anthropic"

NoResponse == [attempt |-> 0, error |-> FALSE]

\* config['models'] in the order of the file
ConfigOrder == <<"A", "B", "C", JudgeModel>>

\* _init_providers makes one provider object per provider name, from the
\* first model entry of the configuration that names the provider; generate
\* reads model, max_tokens and temperature from that entry
ProviderConfig(provider_name) ==
    LET at == {i \in 1..Len(ConfigOrder) : cfg.provider[ConfigOrder[i]] = provider_name}
    IN ConfigOrder[CHOOSE i \in at : \A k \in at : i <= k]

\* ModelResponse.model_id of the response of call c: config['model'] of the
\* provider object
ResponseModelId(c) == ModelVersion(served[c])

\* ModelProvider.__init__ raises ValueError when the provider's API key is
\* not in the environment; _init_providers then raises RuntimeError and no
\* ModelRunner exists
Constructed == cfg.api_keys

\* how a provider request ends: the client call returns, or raises
ProviderOutcomes == {"ok", "api_error"}

\* mutant: generate lets the exception of the request through
generatePropagates(out, made) ==
    [raised |-> out # "ok", attempt |-> made, error |-> FALSE]

\* ProviderAdapter.generate: the response of a request that returned, or the
\* ModelResponse with error = str(e) of the except branch
generate(out, made) ==
    [raised |-> FALSE, attempt |-> made, error |-> out # "ok"]

\* the state of the calls and the limiters when the invocation starts
InitCalls ==
    /\ now = 0
    /\ tokens = [L \in Limiters |-> cfg.rate * TicksPerToken]
    /\ last_update = [L \in Limiters |-> 0]
    /\ lockHolder = [L \in Limiters |-> 0]
    /\ waiters = [L \in Limiters |-> <<>>]
    /\ pc = [c \in Slots |-> IF ~Constructed THEN "not_constructed"
                              ELSE IF c \in ModelCalls THEN "ready" ELSE "unborn"]
    /\ wake = [c \in Slots |-> 0]
    /\ attempt = [c \in Slots |-> 0]
    /\ failures = [c \in Slots |-> 0]
    /\ delay = [c \in Slots |-> InitialDelay]
    /\ resp = [c \in Slots |-> NoResponse]
    /\ ready = IF Constructed THEN [i \in ModelCalls |-> i] ELSE <<>>
    /\ busy = 0
    /\ asked = [c \in Slots |-> 0]
    /\ acquired = {}
    /\ completed = <<>>
    /\ runModelsResult = NotReturned
    /\ outcome = [c \in Slots |-> "none"]
    /\ served = [c \in Slots |-> "none"]
    /\ judgeText = [c \in Slots |-> NoText]
    /\ score = [c \in Slots |-> NoScore]
    /\ stages = [c \in Slots |-> <<>>]

storeUnchanged == UNCHANGED storeVars

\* ------------------------------------------------------------------------
\* Temporary files of the image-format conversion
\* ------------------------------------------------------------------------
\* Calls of _ensure_compatible_format that are explored.
MaxConversions == 5

VARIABLES
    tempOnDisk,   \* the temporary files that exist
    temp_files,   \* _temp_files: the paths tracked for cleanup
    conversions,  \* calls of _ensure_compatible_format so far
    lastPath,     \* the path the last call returned
    exited        \* the process has exited (atexit handlers have run)

tempVars == <<tempOnDisk, temp_files, conversions, lastPath, exited>>

\* the image paths given to generate
ImagePaths == {"comic.png", "comic.gif"}

\* how a call of _ensure_compatible_format goes for a .gif:
\*   no_pil          from PIL import Image raises, before any file is made
\*   converted       the PNG is written
\*   convert_failed  the temporary file is made, then Image.open, convert or
\*                   save raises
ConversionOutcomes == {"no_pil", "converted", "convert_failed"}

\* tempfile.NamedTemporaryFile(suffix='.png', delete=False): a new path
TempPath(n) == "tmp" \o ToString(n) \o ".png"

InitTemp ==
    /\ tempOnDisk = {}
    /\ temp_files = <<>>
    /\ conversions = 0
    /\ lastPath = None
    /\ exited = FALSE

\* ModelProvider._ensure_compatible_format
EnsureCompatibleFormat(image_path, how) ==
    /\ ~exited
    /\ conversions < MaxConversions
    /\ conversions' = conversions + 1
    /\ LET temp_png_path == TempPath(conversions + 1)
       IN IF image_path # "comic.gif" \/ how = "no_pil"
          THEN /\ lastPath' = image_path
               /\ UNCHANGED <<tempOnDisk, temp_files>>
          ELSE /\ tempOnDisk' = tempOnDisk \cup {temp_png_path}
               /\ IF how = "converted"
                  THEN /\ temp_files' = Append(temp_files, temp_png_path)
                       /\ lastPath' = temp_png_path
                  ELSE /\ lastPath' = image_path
                       /\ UNCHANGED temp_files
    /\ UNCHANGED exited

\* _cleanup_temp_files, registered with atexit: every tracked path that
\* exists is unlinked, then the list is cleared
ProcessExit ==
    /\ ~exited
    /\ exited' = TRUE
    /\ tempOnDisk' = tempOnDisk \ Range(temp_files)
    /\ temp_files' = <<>>
    /\ UNCHANGED <<conversions, lastPath>>

InitRun ==
    /\ \E inv \in Invocations, rate \in 1..MaxRate, max_attempts \in 1..MaxAttempts,
          provider \in {f \in [{"A", "B", "C", JudgeModel} ->
                                  Providers \cup {NotConfigured}] :
                         /\ f["A"] = "anthropic" /\ f["B"] = "anthropic"
                         /\ f["C"] \in Providers} :
         /\ inv.judging \/ provider[JudgeModel] = "anthropic"
         /\ \E api_keys \in BOOLEAN :
              cfg = [rate |-> rate, max_attempts |-> max_attempts,
                     provider |-> provider, api_keys |-> api_keys,
                     model_ids |-> inv.model_ids, judging |-> inv.judging]
    /\ InitCalls

\* the largest retry.max_attempts of the configurations of one call of
\* run_model followed through all its attempts
MaxRetryAttempts == 3

\* one call of run_model, every provider configured
InitRetry ==
    /\ \E rate \in 1..MaxRate, max_attempts \in 1..MaxRetryAttempts :
         cfg = [rate |-> rate, max_attempts |-> max_attempts,
                provider |-> [m \in {"A", "B", "C", JudgeModel} |-> "anthropic"],
                api_keys |-> TRUE, model_ids |-> <<"A">>, judging |-> FALSE]
    /\ InitCalls

Sleeping == {c \in Calls : pc[c] \in {"rate_sleep", "backoff"}}

\* mutant: the release wakes no waiter
HolderAfterReleaseNone(L) == 0

\* asyncio.Lock.release: the first waiter is woken and takes the lock when
\* the loop runs it; a later acquire() queues behind it
HolderAfterRelease(L) == IF waiters[L] = <<>> THEN 0 ELSE Head(waiters[L])

\* mutant: the loop makes one attempt fewer
MoreAttemptsOffByOne(made) == made < cfg.max_attempts - 1

\* mutant: the delay does not grow
NextDelayConstant(d) == d

\* delay *= backoff
NextDelay(d) == d * BackoffFactor

\* for attempt in range(max_attempts): another attempt follows the made-th
MoreAttempts(made) == made < cfg.max_attempts

\* The token is taken: the lock is released (async with ends), run_model
\* enters its retry loop and calls provider.generate, a synchronous request
\* inside the coroutine: the event loop is in it until it returns
TakeTokenAndCall(c, L, tok, stamp, rest) ==
    LET w == HolderAfterRelease(L)
    IN /\ tokens' = [tokens EXCEPT ![L] = tok - OneToken]
       /\ last_update' = [last_update EXCEPT ![L] = stamp]
       /\ lockHolder' = [lockHolder EXCEPT ![L] = w]
       /\ waiters' = [waiters EXCEPT ![L] = IF w = 0 THEN <<>> ELSE Tail(@)]
       /\ pc' = [x \in Slots |->
                   IF x = c THEN "calling"
                   ELSE IF x = w THEN "lock_granted" ELSE pc[x]]
       /\ ready' = IF w = 0 THEN rest ELSE Append(rest, w)
       /\ acquired' = acquired \cup
                        {[call |-> c, limiter |-> L, asked |-> asked'[c], at |-> now]}
       /\ attempt' = [attempt EXCEPT ![c] = @ + 1]
       /\ busy' = c
       /\ wake' = [wake EXCEPT ![c] = 0]
       /\ UNCHANGED <<cfg, now, failures, delay, resp>>

\* RateLimiter.acquire with the lock held: refill, then take a token or
\* sleep until one has accumulated (the lock stays held during the sleep)
CriticalSection(c, rest) ==
    LET L == LimiterOf(c)
        tok == Refill(tokens[L], now - last_update[L])
    IN IF tok < OneToken
       THEN /\ tokens' = [tokens EXCEPT ![L] = tok]
            /\ last_update' = [last_update EXCEPT ![L] = now]
            /\ lockHolder' = [lockHolder EXCEPT ![L] = c]
            /\ pc' = [pc EXCEPT ![c] = "rate_sleep"]
            /\ wake' = [wake EXCEPT ![c] = now + SleepTime(tok)]
            /\ ready' = rest
            /\ UNCHANGED <<cfg, now, waiters, attempt, failures, delay, resp,
                           busy, acquired>>
       ELSE TakeTokenAndCall(c, L, tok, now, rest)

\* A task of run_model starts: it reaches rate_limiter.acquire() and takes
\* the lock if it is free, or queues on it
StartCall(c) ==
    /\ busy = 0
    /\ ready # <<>> /\ Head(ready) = c
    /\ pc[c] = "ready"
    /\ asked' = [asked EXCEPT ![c] = now]
    /\ LET L == LimiterOf(c)
       IN IF lockHolder[L] = 0 /\ waiters[L] = <<>>
          THEN CriticalSection(c, Tail(ready))
          ELSE /\ waiters' = [waiters EXCEPT ![L] = Append(@, c)]
               /\ pc' = [pc EXCEPT ![c] = "lock_wait"]
               /\ ready' = Tail(ready)
               /\ UNCHANGED <<cfg, now, tokens, last_update, lockHolder, wake,
                              attempt, failures, delay, resp, busy, acquired>>
    /\ storeUnchanged
    /\ UNCHANGED tempVars
    /\ UNCHANGED gatherVars
    /\ UNCHANGED judgeVars
    /\ UNCHANGED <<outcome, served>>

\* A task woken by the lock's release runs: it has the lock
LockGranted(c) ==
    /\ busy = 0
    /\ ready # <<>> /\ Head(ready) = c
    /\ pc[c] = "lock_granted"
    /\ UNCHANGED asked
    /\ CriticalSection(c, Tail(ready))
    /\ storeUnchanged
    /\ UNCHANGED tempVars
    /\ UNCHANGED gatherVars
    /\ UNCHANGED judgeVars
    /\ UNCHANGED <<outcome, served>>

\* The sleep inside acquire() ends: tokens = 1, then tokens -= 1;
\* last_update keeps the time from before the sleep
RateSleepWake(c) ==
    /\ busy = 0
    /\ pc[c] = "rate_sleep"
    /\ wake[c] <= now
    /\ UNCHANGED asked
    /\ TakeTokenAndCall(c, LimiterOf(c), OneToken, last_update[LimiterOf(c)], ready)
    /\ storeUnchanged
    /\ UNCHANGED tempVars
    /\ UNCHANGED gatherVars
    /\ UNCHANGED judgeVars
    /\ UNCHANGED <<outcome, served>>

\* mutant: every attempt takes a token of its own
BackoffWakeAcquires(c) ==
    /\ busy = 0
    /\ pc[c] = "backoff"
    /\ wake[c] <= now
    /\ pc' = [pc EXCEPT ![c] = "calling"]
    /\ attempt' = [attempt EXCEPT ![c] = @ + 1]
    /\ busy' = c
    /\ wake' = [wake EXCEPT ![c] = 0]
    /\ tokens' = [tokens EXCEPT ![LimiterOf(c)] = @ - OneToken]
    /\ acquired' = acquired \cup
                     {[call |-> c, limiter |-> LimiterOf(c), asked |-> now, at |-> now]}
    /\ UNCHANGED <<cfg, now, last_update, lockHolder, waiters,
                   failures, delay, resp, ready, asked>>
    /\ storeUnchanged
    /\ UNCHANGED tempVars
    /\ UNCHANGED gatherVars
    /\ UNCHANGED judgeVars
    /\ UNCHANGED <<outcome, served>>

\* The backoff sleep ends: the next attempt calls provider.generate
BackoffWake(c) ==
    /\ busy = 0
    /\ pc[c] = "backoff"
    /\ wake[c] <= now
    /\ pc' = [pc EXCEPT ![c] = "calling"]
    /\ attempt' = [attempt EXCEPT ![c] = @ + 1]
    /\ busy' = c
    /\ wake' = [wake EXCEPT ![c] = 0]
    /\ UNCHANGED <<cfg, now, tokens, last_update, lockHolder, waiters,
                   failures, delay, resp, ready, asked, acquired>>
    /\ storeUnchanged
    /\ UNCHANGED tempVars
    /\ UNCHANGED gatherVars
    /\ UNCHANGED judgeVars
    /\ UNCHANGED <<outcome, served>>

\* the texts a response of call c may carry: the judge outputs for a judge
\* call that returns to _judge_with_text_parsing without an error
TextsOf(c, returns, err) ==
    IF c \in JudgeCalls /\ returns /\ ~err THEN JudgeOutputs ELSE {NoText}

\* provider.generate returns after d ticks, with or without an error; the
\* task returns the response, or sleeps before the next attempt; a judge
\* call's response is scored by _judge_with_text_parsing
GenerateReturn(c) ==
    /\ busy = c
    /\ pc[c] = "calling"
    /\ \E d \in 0..MaxLatency, out \in ProviderOutcomes :
       \E r \in {generate(out, attempt[c])} :
       \E err \in {r.error} :
         /\ now' = now + d
         /\ outcome' = [outcome EXCEPT ![c] = out]
         /\ served' = [served EXCEPT ![c] = ProviderConfig(ProviderOf(c))]
         /\ IF r.raised
            THEN /\ pc' = [pc EXCEPT ![c] = "generate_raised"]
                 /\ UNCHANGED <<resp, failures, wake, delay, completed,
                                judgeText, score, stages>>
            ELSE /\ resp' = [resp EXCEPT ![c] = [attempt |-> r.attempt,
                                                 error |-> err]]
                 /\ failures' = [failures EXCEPT ![c] = IF err THEN @ + 1 ELSE @]
                 /\ IF err /\ MoreAttempts(attempt[c])
                    THEN /\ pc' = [pc EXCEPT ![c] = "backoff"]
                         /\ wake' = [wake EXCEPT ![c] = now + d + delay[c]]
                         /\ delay' = [delay EXCEPT ![c] = NextDelay(@)]
                    ELSE /\ pc' = [pc EXCEPT ![c] = "done"]
                         /\ UNCHANGED <<wake, delay>>
                 /\ completed' = IF err /\ MoreAttempts(attempt[c]) THEN completed
                                 ELSE Append(completed, c)
                 /\ \E text \in TextsOf(c, ~(err /\ MoreAttempts(attempt[c])), err) :
                      /\ judgeText' = [judgeText EXCEPT ![c] = text]
                      /\ score' =
                           IF c \in JudgeCalls /\ ~(err /\ MoreAttempts(attempt[c]))
                           THEN [score EXCEPT ![c] =
                                   TextParsingScore([attempt |-> attempt[c],
                                                     error |-> err], text, now + d)]
                           ELSE score
                      /\ stages' =
                           IF c \in JudgeCalls /\ ~(err /\ MoreAttempts(attempt[c]))
                           THEN [stages EXCEPT ![c] =
                                   @ \o TextParsingStages([attempt |-> attempt[c],
                                                           error |-> err], text)]
                           ELSE stages
    /\ UNCHANGED runModelsResult
    /\ busy' = 0
    /\ UNCHANGED <<cfg, tokens, last_update, lockHolder, waiters, attempt, ready,
                   asked, acquired>>
    /\ storeUnchanged
    /\ UNCHANGED tempVars

\* Nothing can run: the loop waits for the earliest timer
Tick ==
    /\ busy = 0
    /\ ready = <<>>
    /\ Sleeping # {}
    /\ \A c \in Sleeping : wake[c] > now
    /\ now' = CHOOSE t \in {wake[c] : c \in Sleeping} :
                 \A c \in Sleeping : t <= wake[c]
    /\ UNCHANGED <<cfg, tokens, last_update, lockHolder, waiters, pc, wake, attempt,
                   failures, delay, resp, ready, busy, asked, acquired>>
    /\ storeUnchanged
    /\ UNCHANGED tempVars
    /\ UNCHANGED gatherVars
    /\ UNCHANGED judgeVars
    /\ UNCHANGED <<outcome, served>>

\* mutant: the responses are paired with the ids in completion order
GatherResponsesByCompletion ==
    LET order == SelectSeq(completed, LAMBDA c : c \in ModelCalls)
    IN [i \in ModelCalls |-> [call |-> order[i], response |-> resp[order[i]]]]

\* asyncio.gather(*tasks): the results of the tasks, in the order of tasks
GatherResponses == [i \in ModelCalls |-> [call |-> i, response |-> resp[i]]]

\* {model_id: response for model_id, response in zip(model_ids, responses)}
ZipToDict(ids, responses) ==
    [m \in Range(ids) |->
       LET last == CHOOSE i \in 1..Len(ids) :
                     ids[i] = m /\ \A k \in 1..Len(ids) : ids[k] = m => k <= i
       IN responses[last]]

\* gather's future is done once every task is: run_models resumes and
\* returns the map to its caller
RunModelsReturn ==
    /\ busy = 0
    /\ runModelsResult = NotReturned
    /\ ModelCalls # {}
    /\ \A c \in ModelCalls : pc[c] = "done"
    /\ runModelsResult' = [returned |-> TRUE,
                           map |-> ZipToDict(cfg.model_ids, GatherResponses)]
    /\ UNCHANGED <<cfg, now, tokens, last_update, lockHolder, waiters, pc, wake,
                   attempt, failures, delay, resp, ready, busy, asked, acquired,
                   completed>>
    /\ UNCHANGED judgeVars
    /\ UNCHANGED <<outcome, served>>
    /\ storeUnchanged
    /\ UNCHANGED tempVars

\* judge_multiple_explanations awaits one judge_explanation after the other,
\* once run_models has returned
JudgeTurn(j) ==
    /\ busy = 0
    /\ j \in JudgeCalls
    /\ runModelsResult.returned
    /\ \A c \in Calls : c < j => pc[c] = "done"

\* _judge_with_anthropic_structured: a request on a client of its own, with
\* no rate limiter; an exception falls back to text parsing
JudgeStructured(j) ==
    /\ JudgeTurn(j)
    /\ Structured
    /\ pc[j] = "unborn"
    /\ \E d \in 0..MaxLatency, out \in {"scores", "no_tool_use", "exception"} :
         /\ now' = now + d
         /\ pc' = [pc EXCEPT ![j] = IF out = "exception" THEN "fallback" ELSE "done"]
         /\ score' = [score EXCEPT ![j] =
                        CASE out = "scores" -> StructuredScore(now + d)
                          [] out = "no_tool_use" -> ErrorScore(now + d)
                          [] OTHER -> @]
         /\ stages' = [stages EXCEPT ![j] =
                         CASE out = "scores" -> <<Stage("structured", TRUE)>>
                           [] out = "no_tool_use" ->
                                <<Stage("structured", FALSE), Stage("zero_score", TRUE)>>
                           [] OTHER -> <<Stage("structured", FALSE)>>]
         /\ acquired' = acquired \cup
                          {[call |-> j, limiter |-> NoBucket, asked |-> now, at |-> now]}
    /\ UNCHANGED judgeText
    /\ UNCHANGED <<outcome, served>>
    /\ UNCHANGED <<cfg, tokens, last_update, lockHolder, waiters, wake, attempt,
                   failures, delay, resp, ready, busy, asked>>
    /\ storeUnchanged
    /\ UNCHANGED tempVars
    /\ UNCHANGED gatherVars

\* _judge_with_text_parsing: run_model on the judge's own ModelRunner
JudgeTextParsing(j) ==
    /\ JudgeTurn(j)
    /\ \/ ~Structured /\ cfg.provider[JudgeModel] \in Providers /\ pc[j] = "unborn"
       \/ pc[j] = "fallback"
    /\ pc' = [pc EXCEPT ![j] = "ready"]
    /\ ready' = Append(ready, j)
    /\ UNCHANGED <<cfg, now, tokens, last_update, lockHolder, waiters, wake,
                   attempt, failures, delay, resp, busy, asked, acquired>>
    /\ storeUnchanged
    /\ UNCHANGED tempVars
    /\ UNCHANGED gatherVars
    /\ UNCHANGED judgeVars
    /\ UNCHANGED <<outcome, served>>

\* judge_explanation reads config['models'][judge_model_id] for a judge id
\* that starts with 'claude' before any try: KeyError goes to the caller
JudgeRaises(j) ==
    /\ JudgeTurn(j)
    /\ pc[j] = "unborn"
    /\ cfg.provider[JudgeModel] = NotConfigured
    /\ pc' = [pc EXCEPT ![j] = "raised"]
    /\ UNCHANGED <<cfg, now, tokens, last_update, lockHolder, waiters, wake,
                   attempt, failures, delay, resp, ready, busy, asked, acquired>>
    /\ storeUnchanged
    /\ UNCHANGED tempVars
    /\ UNCHANGED gatherVars
    /\ UNCHANGED judgeVars
    /\ UNCHANGED <<outcome, served>>

\* ------------------------------------------------------------------------
\* The driver process: main()
\* ------------------------------------------------------------------------
NoRun ==
    [outcome |-> "none", mode |-> None, models |-> <<>>, sel |-> <<>>,
     kind |-> None, path |-> None, doc |-> NoJson,
     before |-> NoJson, beforeCsv |-> NoCsv, again |-> FALSE]

\* asyncio.run(main()) at module level: the value main() returns is dropped,
\* the interpreter ends normally
ProcessExitStatus(ret) == 0

InitStore ==
    /\ jsonFile = NoJson
    /\ csvFile = NoCsv
    /\ runs = 0
    /\ returned = None
    /\ exitStatus = None
    /\ lastRun = NoRun

\* A required input file (ground truth, comics metadata) is missing:
\* BenchmarkRunner.__init__ raises FileNotFoundError, main() returns 1
MainMissingInput ==
    /\ runs < MaxRuns
    /\ runs' = runs + 1
    /\ returned' = 1
    /\ exitStatus' = ProcessExitStatus(1)
    /\ lastRun' = [NoRun EXCEPT !.outcome = "missing_input",
                                !.before = jsonFile, !.beforeCsv = csvFile]
    /\ UNCHANGED <<jsonFile, csvFile>>
    /\ UNCHANGED runVars
    /\ UNCHANGED tempVars

\* run_benchmark raises (no comic to test): main() returns 1
MainRunRaises ==
    /\ runs < MaxRuns
    /\ runs' = runs + 1
    /\ returned' = 1
    /\ exitStatus' = ProcessExitStatus(1)
    /\ lastRun' = [NoRun EXCEPT !.outcome = "raised",
                                !.before = jsonFile, !.beforeCsv = csvFile]
    /\ UNCHANGED <<jsonFile, csvFile>>
    /\ UNCHANGED runVars
    /\ UNCHANGED tempVars

\* main() with a benchmark run over the selected comics, saved by _save_results
RunAndSave(models, sel, kind, mode) ==
    /\ ComicsToTest(sel) # <<>>
    /\ \E doc \in {BenchmarkResults(models, sel, kind, runs + 1)} :
       \E saved \in {save_results(doc, mode, jsonFile, csvFile)} :
       LET ret == IF saved.raised THEN 1 ELSE 0
       IN /\ jsonFile' = saved.json
          /\ csvFile' = saved.csv
          /\ returned' = ret
          /\ exitStatus' = ProcessExitStatus(ret)
          /\ lastRun' = [outcome |-> IF saved.raised THEN "raised" ELSE "saved",
                         mode |-> mode, models |-> models, sel |-> sel,
                         kind |-> kind, path |-> saved.path, doc |-> JsonFile(doc),
                         before |-> jsonFile, beforeCsv |-> csvFile,
                         again |-> /\ lastRun.outcome = "saved"
                                   /\ lastRun.path = "merge"
                                   /\ saved.path = "merge"
                                   /\ ~saved.raised
                                   /\ <<models, sel, kind>> =
                                        <<lastRun.models, lastRun.sel, lastRun.kind>>]
    /\ runs' = runs + 1
    /\ UNCHANGED runVars
    /\ UNCHANGED tempVars

MainRun ==
    /\ runs < MaxRuns
    /\ \E models \in ModelLists, sel \in Selections, kind \in RunKinds,
          mode \in SaveModes :
         RunAndSave(models, sel, kind, mode)

\* The operator repeats the last saved run: the same arguments, the same
\* answers of the providers and the judge
MainRerun ==
    /\ runs = MaxRuns
    /\ lastRun.outcome = "saved"
    /\ RunAndSave(lastRun.models, lastRun.sel, lastRun.kind, lastRun.mode)

vars == <<jsonFile, csvFile, runs, returned, exitStatus, lastRun, cfg, now, tokens,
          last_update, lockHolder, waiters, pc, wake, attempt, failures, delay,
          resp, ready, busy, asked, acquired, completed, runModelsResult,
          outcome, judgeText, score, stages, served, tempOnDisk, temp_files, conversions,
          lastPath, exited>>

\* The driver's store over successive invocations; the invocation layer is
\* not run
\* the invocation layer before any call is made
InitIdle ==
    /\ cfg = [rate |-> 1, max_attempts |-> 1,
              provider |-> [m \in {"A", "B", "C", JudgeModel} |-> "anthropic"],
              api_keys |-> TRUE,
              model_ids |-> <<>>, judging |-> FALSE]
    /\ now = 0
    /\ tokens = [L \in Limiters |-> 0]
    /\ last_update = [L \in Limiters |-> 0]
    /\ lockHolder = [L \in Limiters |-> 0]
    /\ waiters = [L \in Limiters |-> <<>>]
    /\ pc = [c \in Slots |-> "unborn"]
    /\ wake = [c \in Slots |-> 0]
    /\ attempt = [c \in Slots |-> 0]
    /\ failures = [c \in Slots |-> 0]
    /\ delay = [c \in Slots |-> 0]
    /\ resp = [c \in Slots |-> NoResponse]
    /\ ready = <<>>
    /\ busy = 0
    /\ asked = [c \in Slots |-> 0]
    /\ acquired = {}
    /\ completed = <<>>
    /\ runModelsResult = NotReturned
    /\ outcome = [c \in Slots |-> "none"]
    /\ served = [c \in Slots |-> "none"]
    /\ judgeText = [c \in Slots |-> NoText]
    /\ score = [c \in Slots |-> NoScore]
    /\ stages = [c \in Slots |-> <<>>]

Init == InitStore /\ InitIdle /\ InitTemp

Next == MainMissingInput \/ MainRunRaises \/ MainRun \/ MainRerun

Spec == Init /\ [][Next]_vars

\* One comic's invocations: run_models over the requested models, then the
\* judge calls; the store is not touched
InitInvoke == InitStore /\ InitRun /\ InitTemp

NextInvoke ==
    \/ \E c \in Calls : StartCall(c)
    \/ \E c \in Calls : LockGranted(c)
    \/ \E c \in Calls : RateSleepWake(c)
    \/ \E c \in Calls : BackoffWake(c)
    \/ \E c \in Calls : GenerateReturn(c)
    \/ Tick
    \/ RunModelsReturn
    \/ \E j \in JudgeCalls : JudgeStructured(j)
    \/ \E j \in JudgeCalls : JudgeTextParsing(j)
    \/ \E j \in JudgeCalls : JudgeRaises(j)

SpecInvoke == InitInvoke /\ [][NextInvoke]_vars

\* run_models over the requested models, every provider constructed and
\* retry.max_attempts set to 1
InitFanOut ==
    /\ \E rate \in 1..MaxRate, providerC \in Providers :
         cfg = [rate |-> rate, max_attempts |-> 1,
                provider |-> [m \in {"A", "B", "C", JudgeModel} |->
                                IF m = "C" THEN providerC ELSE "anthropic"],
                api_keys |-> TRUE, model_ids |-> RequestedModels, judging |-> FALSE]
    /\ InitCalls

InitModels == InitStore /\ InitFanOut /\ InitTemp

NextModels ==
    \/ \E c \in Calls : StartCall(c)
    \/ \E c \in Calls : LockGranted(c)
    \/ \E c \in Calls : RateSleepWake(c)
    \/ \E c \in Calls : GenerateReturn(c)
    \/ Tick
    \/ RunModelsReturn

\* The event loop runs a callback whenever one can run, timers fire, and a
\* provider request returns
SpecModelsLive == InitModels /\ [][NextModels]_vars /\ WF_vars(NextModels)

\* One call of run_model from acquire() to its return
NextRetry ==
    \/ \E c \in Calls : StartCall(c)
    \/ \E c \in Calls : BackoffWake(c)
    \/ \E c \in Calls : GenerateReturn(c)
    \/ Tick
    \/ RunModelsReturn

InitOneCall == InitStore /\ InitRetry /\ InitTemp

SpecRetry == InitOneCall /\ [][NextRetry]_vars

\* The image conversions of a process and its exit; the store and the
\* invocation layer are not run
NextTemp ==
    \/ /\ \E image_path \in ImagePaths, how \in ConversionOutcomes :
            EnsureCompatibleFormat(image_path, how)
       /\ UNCHANGED storeVars
       /\ UNCHANGED runVars
    \/ /\ ProcessExit
       /\ UNCHANGED storeVars
       /\ UNCHANGED runVars

SpecTemp == Init /\ [][NextTemp]_vars

\* ------------------------------------------------------------------------
\* Properties of the result store
\* ------------------------------------------------------------------------
\* the new run's document of the last invocation
NewDoc == lastRun.doc

Merged == lastRun.outcome = "saved" /\ lastRun.path = "merge"

ComicsOf(results) == {results[i].comic_id : i \in 1..Len(results)}

\* the (comic, model) pairs that have a value under the field (scores or
\* explanations) in a results list
KeysOf(results, field) ==
    UNION {{<<results[i].comic_id, m>> : m \in DOMAIN results[i][field]} :
             i \in 1..Len(results)}

\* the value of a (comic, model) pair: that of the last entry holding it
ValueOf(results, field, c, m) ==
    LET at == {i \in 1..Len(results) :
                 results[i].comic_id = c /\ m \in DOMAIN results[i][field]}
        last == CHOOSE i \in at : \A j \in at : j <= i
    IN results[last][field][m]

\* the models with a value for comic c
ModelsAt(results, field, c) == {m \in ConfigModels : <<c, m>> \in KeysOf(results, field)}

UnionWithNewWinning(field) ==
    LET old == lastRun.before.detailed_results
        new == NewDoc.detailed_results
        cur == jsonFile.detailed_results
    IN \A c \in ComicsOf(old) \cap ComicsOf(new) :
         /\ Cardinality({i \in 1..Len(cur) : cur[i].comic_id = c}) = 1
         /\ ModelsAt(cur, field, c) = ModelsAt(old, field, c) \cup ModelsAt(new, field, c)
         /\ \A m \in ModelsAt(cur, field, c) :
              ValueOf(cur, field, c, m) =
                 IF m \in ModelsAt(new, field, c) THEN ValueOf(new, field, c, m)
                 ELSE ValueOf(old, field, c, m)

\* C2: when a run is merged into a store that already has an entry for one
\* of its comics, that comic's merged scores and explanations are the
\* key-wise union of the old and the new maps, the new run's value winning
\* on a shared model.
C2_Upsert == Merged => UnionWithNewWinning("scores") /\ UnionWithNewWinning("explanations")

\* C2 witness: a merge into a comic where one model is only in the old
\* entry, one only in the new run and one in both with a changed score,
\* as in {A:5, B:7} merged with {B:9, C:3}.
C2_Witness ==
    /\ Merged
    /\ \E c \in ComicsOf(lastRun.before.detailed_results)
                 \cap ComicsOf(NewDoc.detailed_results) :
         /\ ModelsAt(lastRun.before.detailed_results, "scores", c) = {"A", "B"}
         /\ ModelsAt(NewDoc.detailed_results, "scores", c) = {"B", "C"}
         /\ ModelsAt(jsonFile.detailed_results, "scores", c) = {"A", "B", "C"}
         /\ ValueOf(lastRun.before.detailed_results, "scores", c, "B").overall_score
              # ValueOf(jsonFile.detailed_results, "scores", c, "B").overall_score

\* timestamps removed from a stored document
StripScore(sc) == [f \in (DOMAIN sc) \ {"timestamp"} |-> sc[f]]

StripResult(r) ==
    [f \in (DOMAIN r) \ {"timestamp"} |->
        IF f = "scores" THEN [m \in DOMAIN r.scores |-> StripScore(r.scores[m])]
        ELSE r[f]]

StripJson(j) ==
    [exists |-> j.exists,
     metadata |-> [f \in (DOMAIN j.metadata) \ {"timestamp"} |-> j.metadata[f]],
     summary |-> j.summary,
     detailed_results |-> [i \in 1..Len(j.detailed_results) |->
                             StripResult(j.detailed_results[i])]]

StripCsv(c) ==
    [exists |-> c.exists,
     fieldnames |-> c.fieldnames,
     rows |-> [i \in 1..Len(c.rows) |->
                 [f \in (DOMAIN c.rows[i]) \ {"timestamp"} |-> c.rows[i][f]]]]

\* a step that merges the run the step before it merged
SameRunAgain ==
    /\ lastRun'.again
    /\ StripJson(lastRun'.doc) = StripJson(lastRun.doc)

\* C3: merging the same new-run results twice in succession leaves the
\* store (detailed results, summary, model set, tabular projection) as the
\* first merge left it, up to timestamp fields.
C3_Idempotent ==
    [][SameRunAgain =>
          /\ StripJson(jsonFile') = StripJson(jsonFile)
          /\ StripCsv(csvFile') = StripCsv(csvFile)]_vars

\* C3 witness: a second merge of the same run has happened, into a store
\* that holds more than that run.
C3_Witness ==
    /\ Merged
    /\ lastRun.again
    /\ StripJson(lastRun.before) = StripJson(jsonFile)
    /\ StripCsv(lastRun.beforeCsv) = StripCsv(csvFile)
    /\ StripJson(NewDoc) # StripJson(jsonFile)
    /\ KeysOf(jsonFile.detailed_results, "scores")
         # KeysOf(NewDoc.detailed_results, "scores")

\* C4: after a merge the store's model set is the union of the models of
\* every explanations map of the prior store and of the new run, and every
\* score the prior store held for a model the new run omits is still there.
C4_ModelSet ==
    Merged =>
      /\ Range(jsonFile.metadata.models) =
           {k[2] : k \in KeysOf(lastRun.before.detailed_results, "explanations")
                         \cup KeysOf(NewDoc.detailed_results, "explanations")}
      /\ \A k \in KeysOf(lastRun.before.detailed_results, "scores") :
           k[2] \notin Range(lastRun.models) =>
             /\ k \in KeysOf(jsonFile.detailed_results, "scores")
             /\ ValueOf(jsonFile.detailed_results, "scores", k[1], k[2])
                  = ValueOf(lastRun.before.detailed_results, "scores", k[1], k[2])

\* C4 witness: a merge of a run that omits a model the store has scores for
\* and brings a model the store did not have.
C4_Witness ==
    /\ Merged
    /\ \E k \in KeysOf(lastRun.before.detailed_results, "scores") :
         k[2] \notin Range(lastRun.models)
    /\ \E k \in KeysOf(NewDoc.detailed_results, "explanations") :
         k[2] \notin {j[2] : j \in KeysOf(lastRun.before.detailed_results, "explanations")}

StrictSubsetOfBenchmark(models) ==
    /\ Range(models) \subseteq Range(BenchmarkModels)
    /\ Range(models) # Range(BenchmarkModels)

EntriesKept ==
    /\ KeysOf(lastRun.before.detailed_results, "scores")
         \subseteq KeysOf(jsonFile.detailed_results, "scores")
    /\ KeysOf(lastRun.before.detailed_results, "explanations")
         \subseteq KeysOf(jsonFile.detailed_results, "explanations")

\* C5 as stated: a save in a mode other than overwrite keeps every
\* (comic, model) entry the store held before it.
C5_KeptUnlessOverwrite ==
    (lastRun.outcome = "saved" /\ lastRun.mode # "overwrite") => EntriesKept

\* C5 amended: a save in mode merge, or in mode auto when the run's model
\* set is a strict subset of the configured benchmark models, keeps every
\* (comic, model) entry the store held before it.
C5_KeptWhenMerging ==
    (/\ lastRun.outcome = "saved"
     /\ \/ lastRun.mode = "merge"
        \/ lastRun.mode = "auto" /\ StrictSubsetOfBenchmark(lastRun.models))
    => EntriesKept

\* C5 witness: an auto save of a partial run into a store holding an entry
\* the run does not bring.
C5_Witness ==
    /\ lastRun.outcome = "saved"
    /\ lastRun.mode = "auto"
    /\ StrictSubsetOfBenchmark(lastRun.models)
    /\ KeysOf(lastRun.before.detailed_results, "scores")
         \ KeysOf(NewDoc.detailed_results, "scores") # {}

\* C8 as stated: exit status 0 when the benchmark succeeds, 1 on a missing
\* input file or an exception in the run.
C8_ExitStatus ==
    /\ lastRun.outcome = "saved" => exitStatus = 0
    /\ lastRun.outcome \in {"missing_input", "raised"} => exitStatus = 1

Minute == cfg.rate * TicksPerToken

\* the completed acquire() calls on limiter L
CompletedOn(L) == {a \in acquired : a.limiter = L}

\* acquire() calls issued back-to-back: all reached acquire() at one time
BackToBack(S) == \A a, b \in S : a.asked = b.asked

\* the completions fall into one rolling window of a minute [t, t + Minute)
InOneWindow(S) == \A a, b \in S : a.at - b.at < Minute

\* C1 as stated: when R + 1 acquire() calls are issued back-to-back on a
\* RateLimiter of R requests per minute, no rolling window of 60 seconds
\* holds more than R completed acquire() calls.
C1_RollingWindow ==
    \A L \in Limiters :
      \A S \in SUBSET CompletedOn(L) :
        (Cardinality(S) = cfg.rate + 1 /\ BackToBack(S)) => ~InOneWindow(S)

AllAttemptsFailed(c) == attempt[c] > 0 /\ failures[c] = attempt[c]

\* C6: when every attempt of a call of run_model returned an error, run_model
\* has made exactly max_attempts generate calls when it returns, what it
\* returns is the response of the last attempt with its error set, and it
\* returns (it does not go on retrying or end otherwise) once max_attempts
\* attempts have failed.
C6_RetryExhaustion ==
    \A c \in Calls :
      /\ attempt[c] <= cfg.max_attempts
      /\ (pc[c] = "done" /\ AllAttemptsFailed(c)) =>
           /\ attempt[c] = cfg.max_attempts
           /\ resp[c] = [attempt |-> cfg.max_attempts, error |-> TRUE]
      /\ (failures[c] = cfg.max_attempts /\ busy # c) => pc[c] = "done"

\* C6 witness: a call with more than one attempt allowed has returned after
\* all of them failed.
C6_Witness ==
    \E c \in Calls :
      /\ cfg.max_attempts > 1
      /\ pc[c] = "done"
      /\ AllAttemptsFailed(c)
      /\ attempt[c] = cfg.max_attempts
      /\ resp[c].error

\* C7 as stated: every model call and every judge call to the same provider
\* draws its token from the same RateLimiter instance.
C7_OneBucketPerProvider ==
    \A a, b \in acquired :
      ProviderOf(a.call) = ProviderOf(b.call) => a.limiter = b.limiter

\* C10 as stated: a slow model does not block the other models' requests
\* from starting: when time passes inside one model's provider request,
\* every other requested model's run_model has started.
C10_SlowDoesNotBlock ==
    [][\A c \in ModelCalls :
         (busy = c /\ now' > now) => \A x \in ModelCalls : pc[x] # "ready"]_vars

\* C11: run_models hands its caller a result only when every requested
\* model's run_model has returned, and the map it hands over has exactly the
\* requested ids as keys, each id with the response of the run_model call
\* made for that id, whatever the order in which the calls returned.
C11_AllThenKeyed ==
    runModelsResult.returned =>
      /\ \A c \in ModelCalls : pc[c] = "done"
      /\ DOMAIN runModelsResult.map = Range(cfg.model_ids)
      /\ \A i \in ModelCalls :
           runModelsResult.map[cfg.model_ids[i]] = [call |-> i, response |-> resp[i]]

\* C11 witness: run_models has returned for three models whose calls did not
\* return in the order they were requested, with differing responses.
C11_Witness ==
    /\ runModelsResult.returned
    /\ Len(cfg.model_ids) = 3
    /\ completed # <<1, 2, 3>>
    /\ \E i, k \in ModelCalls : resp[i] # resp[k]

\* the comic of the last run that failed: its image is missing or its
\* processing raised
FailedComic(comic_id) ==
    /\ lastRun.kind \in {"noimage", "raises"}
    /\ comic_id = lastRun.sel[1]

\* C12: in a run with a comic whose image is missing or whose processing
\* raises, the run's results have one entry per comic to test, in order; the
\* failing comic's entry carries an error and no explanations or scores, the
\* other comics' entries carry the scores of every model; the run is saved
\* and the store holds the other comics' scores of this run.
C12_ErrorEntryAndContinue ==
    (lastRun.kind \in {"noimage", "raises"}) =>
      LET todo == ComicsToTest(lastRun.sel)
          res == NewDoc.detailed_results
      IN /\ lastRun.outcome = "saved"
         /\ Len(res) = Len(todo)
         /\ \A i \in 1..Len(todo) :
              /\ res[i].comic_id = todo[i]
              /\ IF FailedComic(todo[i])
                 THEN /\ "error" \in DOMAIN res[i]
                      /\ res[i].explanations = EmptyDict
                      /\ res[i].scores = EmptyDict
                 ELSE /\ "error" \notin DOMAIN res[i]
                      /\ DOMAIN res[i].scores = Range(lastRun.models)
                      /\ \A m \in Range(lastRun.models) :
                           ValueOf(jsonFile.detailed_results, "scores", todo[i], m)
                             = res[i].scores[m]

\* C12 witness: the first of two comics raised, the second was scored and
\* its scores are in the store.
C12_Witness ==
    /\ lastRun.kind = "raises"
    /\ lastRun.outcome = "saved"
    /\ lastRun.sel = <<"c1", "c2">>
    /\ "error" \in DOMAIN NewDoc.detailed_results[1]
    /\ NewDoc.detailed_results[2].scores # EmptyDict
    /\ <<"c2", lastRun.models[1]>> \in KeysOf(jsonFile.detailed_results, "scores")

\* a JudgeScore whose five scores are 0 and whose reasoning tells an error
ZeroScored(sc) ==
    /\ \A f \in ScoreFields : sc[f] = 0
    /\ sc.reasoning = ErrorScore(0).reasoning

\* the judge call of j failed: the judge model's response carries an error,
\* or its text yields no validated record
JudgeFailed(j) ==
    \/ resp[j].error
    \/ judgeText[j] # NoText /\ parse_judge_response(judgeText[j]) = EmptyDict

\* C13 as stated: judge_explanation never raises to its caller, and when the
\* judge call errors or its output cannot be validated the JudgeScore it
\* returns has the five scores 0 and an error string as reasoning.
C13_NeverRaises ==
    \A j \in JudgeCalls :
      /\ pc[j] # "raised"
      /\ (pc[j] = "done" /\ JudgeFailed(j)) => ZeroScored(score[j])

\* the numeric-field patterns match all five score fields of the text
RegexCompletable(text) == text.numeric /\ ScoreFields \subseteq text.keys

\* C14 as stated: when json.loads rejects the judge output, an output whose
\* five score fields the numeric patterns match is scored with those
\* values, and only an output the regex stage cannot complete gets the
\* zero score.
C14_RegexRecovery ==
    \A j \in JudgeCalls :
      (pc[j] = "done" /\ judgeText[j].syntax = "broken") =>
        IF RegexCompletable(judgeText[j])
        THEN \A f \in ScoreFields : score[j][f] = WrittenValue(f)
        ELSE ZeroScored(score[j])

\* C15: a call of generate never ends in an exception at its caller: when
\* the provider request fails the call returns a ModelResponse with its
\* error set, and when it succeeds one without; a missing API key fails the
\* construction, so that no call is ever made.
C15_GenerateNeverThrows ==
    /\ \A c \in Calls :
         /\ pc[c] # "generate_raised"
         /\ (outcome[c] # "none" /\ busy # c) =>
              /\ resp[c].attempt = attempt[c]
              /\ resp[c].error <=> outcome[c] = "api_error"
    /\ ~Constructed =>
         /\ \A c \in Slots : pc[c] = "not_constructed" /\ attempt[c] = 0
         /\ acquired = {}

\* C15 witness: a provider request has failed and generate has returned
\* the response with the error to run_model.
C15_Witness ==
    \E c \in Calls :
      /\ outcome[c] = "api_error"
      /\ busy # c
      /\ resp[c].error
      /\ pc[c] \in {"backoff", "done"}

\* C16 as stated: once the process has exited, no temporary file made for an
\* image conversion exists, whether the conversion succeeded or failed.
C16_TempFilesRemoved == exited => tempOnDisk = {}

\* the models that have a row in a table
RowModels(csv) == {csv.rows[i]["model_name"] : i \in 1..Len(csv.rows)}

\* the cell of a model and a comic in a table; a table without the row or
\* the column has no entry there, which reads as the empty cell
CellOf(csv, m, c) ==
    IF m \in RowModels(csv) /\ ComicField(c) \in Range(csv.fieldnames)
    THEN ExistingRows(csv)[m][ComicField(c)]
    ELSE ""

\* the last run asked the model for the comic
AttemptedInRun(m, c) ==
    /\ m \in Range(lastRun.models)
    /\ c \in Range(ComicsToTest(lastRun.sel))

\* ... and the attempt failed: the comic's processing stopped, or the
\* provider answered with an error
FailedInRun(m, c) ==
    /\ AttemptedInRun(m, c)
    /\ \/ lastRun.kind = "modelerr"
       \/ lastRun.kind \in {"noimage", "raises"} /\ c = lastRun.sel[1]

\* the comics and the models seen up to the last run: those of the table
\* the run found, and its own
ComicsSeen ==
    {c \in Range(ComicIds) :
        \/ ComicField(c) \in Range(lastRun.beforeCsv.fieldnames)
        \/ c \in Range(ComicsToTest(lastRun.sel))}

ModelsSeen == RowModels(lastRun.beforeCsv) \cup Range(lastRun.models)

AfterMerge == lastRun.outcome = "saved" /\ lastRun.path = "merge"

C17_Columns ==
    AfterMerge => \A c \in ComicsSeen : ComicField(c) \in Range(csvFile.fieldnames)

C17_Rows == AfterMerge => \A m \in ModelsSeen : m \in RowModels(csvFile)

C17_Cells ==
    AfterMerge =>
        \A m \in RowModels(csvFile), c \in ComicsSeen :
            /\ (~AttemptedInRun(m, c) /\ CellOf(lastRun.beforeCsv, m, c) = "")
                  => CellOf(csvFile, m, c) = ""
            /\ CellOf(csvFile, m, c) = "ERROR"
                  => \/ CellOf(lastRun.beforeCsv, m, c) = "ERROR"
                     \/ FailedInRun(m, c)

\* C17 as stated: the table written after a merge has a column for every
\* comic seen and a row for every model seen; the cell of a model that was
\* never asked for a comic is empty, and a cell carries the error marker
\* only when the model was asked for that comic and failed.
C17_MergedTable == C17_Columns /\ C17_Rows /\ C17_Cells

\* C18 as stated: within the detailed_results of one run no two entries have
\* the same comic_id, whatever comics the run was started with.
C18_UniqueComicIds ==
    LET results == lastRun.doc.detailed_results
    IN \A i, j \in 1..Len(results) :
          results[i].comic_id = results[j].comic_id => i = j

\* the score is the zero-scored sentinel of a failed evaluation
IsErrorScore(s) == s = ErrorScore(s.timestamp)

\* the results in which the model has a score of a successful evaluation
SuccessfulScores(results, model) ==
    SelectSeq(results, LAMBDA r : /\ model \in DOMAIN r.scores
                                  /\ ~IsErrorScore(r.scores[model]))

\* C19 as stated: in a saved summary, a model with zero successful scores
\* has the record {count: 0, error: 'No successful evaluations'}, not a
\* numeric statistics record.
C19_NoSuccessfulEvaluations ==
    jsonFile.exists =>
        \A m \in DOMAIN jsonFile.summary :
            SuccessfulScores(jsonFile.detailed_results, m) = <<>>
                => jsonFile.summary[m] =
                      [count |-> 0, error |-> "No successful evaluations"]

\* the provider calls that took a token of the limiter
TakenAt(L) == {r \in acquired : r.limiter = L}

\* the tokens the limiter has had by now: the full bucket it starts with
\* and one unit per tick since
Supplied == Capacity + now

\* every token taken is one the bucket had: two calls that take the same
\* token take more than was supplied
NoTokenTwice == \A L \in Limiters : OneToken * Cardinality(TakenAt(L)) <= Supplied

\* with the lock free the count is within the bucket
WithinBucketWhenFree ==
    \A L \in Limiters :
        lockHolder[L] = 0 => tokens[L] >= 0 /\ tokens[L] <= Capacity

\* C20 as stated: under every interleaving of the calls suspended in
\* acquire() no two of them consume the same token, and with the lock free
\* the token count is neither negative nor above the capacity.
C20_AtomicAcquire == NoTokenTwice /\ WithinBucketWhenFree

\* the acquire() calls of the set that returned without waiting
Unwaited(S) == {a \in S : a.at = a.asked}

\* R + 1 acquire() calls were issued back-to-back on the fresh limiter L and
\* have returned
FreshBurst(L) ==
    /\ Cardinality(CompletedOn(L)) = cfg.rate + 1
    /\ BackToBack(CompletedOn(L))

\* a call that finds less than one token is suspended for the time one
\* token takes to accumulate, and leaves the bucket empty when it resumes
SleepsForOneToken ==
    \A c \in Calls :
       LET L == LimiterOf(c)
       IN /\ (pc[c] # "rate_sleep" /\ pc'[c] = "rate_sleep") =>
                /\ tokens'[L] < OneToken
                /\ wake'[c] - now' = OneToken - tokens'[L]
          /\ (pc[c] = "rate_sleep" /\ pc'[c] # "rate_sleep") =>
                /\ now >= wake[c]
                /\ tokens'[L] = 0

\* C21: a call of acquire() that finds fewer than 1 token is suspended for
\* the time needed to accumulate 1 token and then consumes it; of R + 1
\* back-to-back calls on a fresh limiter of capacity R, R return without
\* waiting and one, the last to return, observes a nonzero wait.
C21_SleepThenConsume ==
    /\ [](\A L \in Limiters :
            FreshBurst(L) =>
               /\ Cardinality(Unwaited(CompletedOn(L))) = cfg.rate
               /\ \E a \in CompletedOn(L) :
                     /\ a.at > a.asked
                     /\ \A b \in CompletedOn(L) : b.at <= a.at)
    /\ [][SleepsForOneToken]_vars

\* C21 witness: the R + 1 back-to-back calls have returned and one of them
\* has waited.
C21_Witness ==
    \E L \in Limiters :
       /\ FreshBurst(L)
       /\ \E a \in CompletedOn(L) : a.at > a.asked

RECURSIVE Pow(_, _)
Pow(b, n) == IF n = 0 THEN 1 ELSE b * Pow(b, n - 1)

\* the steps of the retry loop of call c
RetryStep(c) ==
    \* a generate call is the first, or follows a response with an error
    /\ (attempt'[c] > attempt[c] /\ attempt[c] > 0) => resp[c].error
    \* nothing is generated after run_model has returned
    /\ pc[c] = "done" => attempt'[c] = attempt[c] /\ pc'[c] = "done"
    /\ (pc[c] = "calling" /\ pc'[c] # "calling") =>
          \* an error-free response is returned at once
          /\ ~resp'[c].error => pc'[c] = "done"
          \* the k-th failure is followed by a sleep of
          \* initial_delay * backoff_factor^(k-1), unless it is the last
          /\ (resp'[c].error /\ failures'[c] < cfg.max_attempts) =>
                /\ pc'[c] = "backoff"
                /\ wake'[c] - now' = InitialDelay * Pow(BackoffFactor, failures'[c] - 1)
          /\ (resp'[c].error /\ failures'[c] = cfg.max_attempts) =>
                /\ pc'[c] = "done"
                /\ wake'[c] = wake[c]

\* C22: run_model retries only while the attempt's response carries an
\* error: the first error-free response is returned without a further
\* generate call; after the k-th failed attempt it sleeps
\* initial_delay * backoff_factor^(k-1) before the next, and it does not
\* sleep after the final attempt.
C22_RetryWithBackoff == [][\A c \in Calls : RetryStep(c)]_vars

\* C22 witness: a call has failed twice and sleeps for the second, longer
\* delay before its third attempt.
C22_Witness ==
    \E c \in Calls :
       /\ pc[c] = "backoff"
       /\ failures[c] = 2
       /\ wake[c] - now = InitialDelay * BackoffFactor

\* the order of the judge's stages
StageRank(name) ==
    CASE name = "structured" -> 1
      [] name = "fenced" -> 2
      [] name = "brace" -> 3
      [] name = "regex" -> 4
      [] OTHER -> 5

\* C23: the judge resolves an explanation through the stages structured
\* call, fenced-JSON parse, brace-delimited JSON parse, regex field
\* extraction, terminal zero-score, in that order; a stage is tried only
\* after every stage tried before it has failed, and the score returned is
\* the zero score exactly when the terminal stage was reached.
C23_StagedFallback ==
    \A j \in JudgeCalls :
       /\ \A a, b \in 1..Len(stages[j]) :
             a < b => /\ StageRank(stages[j][a].stage) < StageRank(stages[j][b].stage)
                      /\ ~stages[j][a].ok
       /\ (pc[j] = "done" /\ score[j] # NoScore) =>
             /\ stages[j] # <<>>
             /\ stages[j][Len(stages[j])].ok
             /\ stages[j][Len(stages[j])].stage = "zero_score" <=> ZeroScored(score[j])

\* C23 witness: a judge call whose structured call failed went on to the
\* fenced-JSON parse, which failed on a string json.loads rejects, then to
\* the regex extraction, and ended with the zero score.
C23_Witness ==
    \E j \in JudgeCalls :
       /\ pc[j] = "done"
       /\ Len(stages[j]) = 4
       /\ stages[j][1] = Stage("structured", FALSE)
       /\ stages[j][2] = Stage("fenced", FALSE)
       /\ stages[j][3].stage = "regex"
       /\ stages[j][4].stage = "zero_score"

\* the comics of the prior store that the merged run does not have
UntouchedComics ==
    ComicsOf(lastRun.before.detailed_results) \ ComicsOf(NewDoc.detailed_results)

\* the (comic, model) pairs of the prior store, under scores or explanations,
\* of a comic the merged run has but for which it brings no value
NotSupplied(field) ==
    {k \in KeysOf(lastRun.before.detailed_results, field) :
        /\ k[1] \in ComicsOf(NewDoc.detailed_results)
        /\ k \notin KeysOf(NewDoc.detailed_results, field)}

FrameOf(field) ==
    \A k \in NotSupplied(field) :
       /\ k \in KeysOf(jsonFile.detailed_results, field)
       /\ ValueOf(jsonFile.detailed_results, field, k[1], k[2])
            = ValueOf(lastRun.before.detailed_results, field, k[1], k[2])

\* C24: a merge leaves every comic entry whose comic_id is not in the new
\* run as it was, and within a comic the new run has, every explanation and
\* score of a model the new run did not supply.
C24_MergeFrame ==
    Merged =>
      /\ \A c \in UntouchedComics :
            \E i \in 1..Len(jsonFile.detailed_results) :
               /\ jsonFile.detailed_results[i].comic_id = c
               /\ jsonFile.detailed_results[i] \in Range(lastRun.before.detailed_results)
      /\ FrameOf("scores")
      /\ FrameOf("explanations")

\* C24 witness: a merge into a store that holds a comic the run does not
\* have and, in a comic the run has, a score of a model the run does not
\* bring.
C24_Witness ==
    /\ Merged
    /\ UntouchedComics # {}
    /\ NotSupplied("scores") # {}
    /\ NotSupplied("explanations") # {}

\* the entries of a results list that hold a score of the model
ScoredAt(results, m) == {i \in 1..Len(results) : m \in DOMAIN results[i].scores}

RECURSIVE SumOverall(_, _, _)
\* the sum of the model's overall scores over the entries I
SumOverall(results, m, I) ==
    IF I = {} THEN 0
    ELSE LET i == CHOOSE x \in I : TRUE
         IN results[i].scores[m].overall_score + SumOverall(results, m, I \ {i})

\* the record is the statistics of the model's overall scores in results,
\* worked out from the entries themselves
StatsFromScratch(rec, results, m) ==
    LET I == ScoredAt(results, m)
        n == Cardinality(I)
        v(i) == results[i].scores[m].overall_score
    IN IF n = 0 THEN rec = [count |-> 0, error |-> "No successful evaluations"]
       ELSE /\ rec.count = n
            /\ rec.overall.mean[1] * n = SumOverall(results, m, I) * rec.overall.mean[2]
            /\ \E i \in I : v(i) = rec.overall.min /\ \A j \in I : v(i) <= v(j)
            /\ \E i \in I : v(i) = rec.overall.max /\ \A j \in I : v(j) <= v(i)
            /\ \E i \in I :
                  /\ v(i) = rec.overall.median
                  /\ Cardinality({j \in I : v(j) < v(i)}) <= n \div 2
                  /\ Cardinality({j \in I : v(j) <= v(i)}) > n \div 2

\* the recomputed model set: every key of every explanations map
ModelSetOf(results) == {k[2] : k \in KeysOf(results, "explanations")}

\* C25: after a merge the persisted summary has an entry for exactly the
\* models of the recomputed model set, and each model's count and overall
\* statistics are those of all the merged comics, not of the new run's only.
C25_SummaryConsistent ==
    Merged =>
      /\ DOMAIN jsonFile.summary = ModelSetOf(jsonFile.detailed_results)
      /\ \A m \in DOMAIN jsonFile.summary :
            StatsFromScratch(jsonFile.summary[m], jsonFile.detailed_results, m)

\* C25 witness: after a merge a model's statistics cover more comics than
\* the new run scored it on and differ from the new run's.
C25_Witness ==
    /\ Merged
    /\ \E m \in DOMAIN jsonFile.summary \cap DOMAIN NewDoc.summary :
         /\ jsonFile.summary[m].count
              > Cardinality(ScoredAt(NewDoc.detailed_results, m))
         /\ Cardinality(ScoredAt(NewDoc.detailed_results, m)) > 0
         /\ jsonFile.summary[m].overall.mean # NewDoc.summary[m].overall.mean

\* C26 as stated: a call of run_model is served with the configuration of
\* the model that was requested, and the response names that model, also
\* when another model id of the configuration shares the provider.
C26_OwnConfiguration ==
    \A c \in Calls :
       served[c] # "none" =>
          /\ served[c] = ModelOf(c)
          /\ ResponseModelId(c) = ModelVersion(ModelOf(c))

\* the tokens call c has taken from a RateLimiter
TokensTakenBy(c) == {r \in acquired : r.call = c /\ r.limiter # NoBucket}

\* a step in which call c makes a provider call after its first
RetryCall(c) == attempt[c] >= 1 /\ attempt'[c] > attempt[c]

\* C27: a call of run_model takes a token exactly once, before its first
\* attempt; the attempts after the first make their provider calls without
\* taking a token, so that a call can make more provider calls than it has
\* taken tokens.
C27_OneAcquirePerCall ==
    /\ [](\A c \in Calls :
            Cardinality(TokensTakenBy(c)) = IF attempt[c] > 0 THEN 1 ELSE 0)
    /\ [][\A c \in Calls :
            RetryCall(c) => /\ tokens' = tokens
                            /\ TokensTakenBy(c)' = TokensTakenBy(c)]_vars

\* C27 witness: a call has made two provider calls on one token.
C27_Witness ==
    \E c \in Calls : attempt[c] = 2 /\ Cardinality(TokensTakenBy(c)) = 1

\* the entry is the result of a comic processed without a comic-level error
ProcessedEntry(r) == "error" \notin DOMAIN r

SameKeySets(r) == DOMAIN r.explanations = DOMAIN r.scores

\* C28: every comic a run processes without a comic-level error has an
\* explanation and a score for exactly the requested models, a model whose
\* generation failed included (its explanation is the bracketed error text
\* and it has a score); in the store, after a merge too, every entry has
\* the same keys under explanations and under scores.
C28_KeySetsEqual ==
    /\ \A i \in 1..Len(NewDoc.detailed_results) :
          LET r == NewDoc.detailed_results[i]
          IN ProcessedEntry(r) =>
                /\ DOMAIN r.explanations = Range(lastRun.models)
                /\ DOMAIN r.scores = Range(lastRun.models)
    /\ \A i \in 1..Len(jsonFile.detailed_results) :
          SameKeySets(jsonFile.detailed_results[i])

\* C28 witness: a run in which the providers failed has been merged into a
\* comic that held other models: the entry has the bracketed error text
\* and a score for the failed model, and the same keys on both sides.
C28_Witness ==
    /\ Merged
    /\ lastRun.kind = "modelerr"
    /\ \E i \in 1..Len(jsonFile.detailed_results) :
          LET r == jsonFile.detailed_results[i]
          IN /\ DOMAIN r.scores # Range(lastRun.models)
             /\ \E m \in Range(lastRun.models) :
                   /\ m \in DOMAIN r.explanations
                   /\ r.explanations[m] = ExplanationText("modelerr", m)
                   /\ m \in DOMAIN r.scores
             /\ SameKeySets(r)

\* C29 as stated: after a merge the persisted metadata.total_comics is the
\* number of entries of the persisted detailed_results.
C29_TotalComics ==
    Merged => jsonFile.metadata.total_comics = Len(jsonFile.detailed_results)

\* call c is inside acquire(): queued on the lock, woken with it, or asleep
\* holding it
InAcquire(c) == pc[c] \in {"lock_wait", "lock_granted", "rate_sleep"}

\* C30: every call of acquire() eventually returns, a lock that is held is
\* eventually released, and run_models over the requested models, with
\* providers that always answer, eventually returns.
C30_LimiterProgress ==
    /\ \A c \in Slots : [](InAcquire(c) => <>(~InAcquire(c)))
    /\ \A L \in Limiters : [](lockHolder[L] # 0 => <>(lockHolder[L] = 0))
    /\ <>(runModelsResult.returned)

\* C30 witness: run_models has returned after three calls went through one
\* limiter, one of which had to wait inside acquire().
C30_Witness ==
    /\ runModelsResult.returned
    /\ \E L \in Limiters :
          /\ Cardinality(CompletedOn(L)) = NumModelCalls
          /\ \E a \in CompletedOn(L) : a.at > a.asked
          /\ lockHolder[L] = 0 /\ waiters[L] = <<>>

====
